---- MODULE Spec2Model ----
(***************************************************************************)
(* A model of voice-gp's health_poc: the SNOMED ingestion job              *)
(* (ingest_snomed.py), the demo ingestion job (ingest_fake_snomed.py) and  *)
(* the triage webhook (server.py), over one graph store.                   *)
(*                                                                         *)
(* The graph store is a list of nodes (a node's internal id is its         *)
(* position), a list of edges and the vector index.  An embedding is       *)
(* modelled as a unit vector in the plane, given by its angle in steps of  *)
(* 15 degrees; cosine similarity is the cosine of the angle between two    *)
(* embeddings, scaled by 1000.                                             *)
(***************************************************************************)
EXTENDS Integers, Sequences, FiniteSets, TLC

\* ---------------------------------------------------------------- bounds
\* Rows of the three extracts together, when the extract is arbitrary.
MaxRows == 3
\* The batch sizes tried: BATCH_SIZE ranges over 1..MaxBatch.
MaxBatch == 2

\* ------------------------------------------------------------- constants
\* The K of vector_search.search('snomed_description_index', 10, ...).
TopK == 10

NULL == "NULL"
NoEmbedding == -1

Codes == {"A", "B"}
DescIds == {"D1", "D2"}
IS_A_TYPE == "116680003"
TypeIds == {"116680003", "47429007", "42752001", "999"}
SYNONYM == "900000000000013009"

\* rels_map of ingest_snomed: the known relationship types.
rels_map == [t \in {"116680003", "47429007", "42752001", "246090004"} |->
               CASE t = "116680003" -> "IS_A"
                 [] t = "47429007" -> "ASSOCIATED_WITH"
                 [] t = "42752001" -> "DUE_TO"
                 [] OTHER -> "ASSOCIATED_FINDING"]

\* -------------------------------------------------------------- embedding
\* SentenceTransformer.encode: a text's embedding (its angle).  The same
\* text always gets the same embedding.
Embed(text) ==
  CASE text = "Chest pain" -> 0
    [] text = "chest pain" -> 0
    [] text = "Nausea" -> 3
    [] text = "Upset stomach" -> 4
    [] text = "Dizziness" -> 6
    [] text = "Myocardial infarction" -> 1
    [] text = "Gastroesophageal reflux disease" -> 4
    [] text = "Panic attack" -> 2
    [] text = "Knee pain" -> 5
    [] text = "knee pain" -> 5
    [] text = "Bruising" -> 6
    [] text = "Sprain of knee" -> 5
    [] text = "Osteoarthritis of knee" -> 4
    [] text = "" -> 3
    [] text = "term D1" -> 1
    [] text = "term D2" -> 5
    [] text = "angle 0" -> 0
    [] text = "angle 1" -> 1
    [] text = "angle 2" -> 2
    [] text = "angle 3" -> 3
    [] text = "angle 4" -> 4
    [] text = "angle 5" -> 5
    [] text = "angle 6" -> 6
    [] OTHER -> 2

\* cos of k * 15 degrees, times 1000.
Cos1000 == <<1000, 966, 866, 707, 500, 259, 0>>

Abs(x) == IF x < 0 THEN -x ELSE x

CosSim(u, v) == Cos1000[Abs(u - v) + 1]

\* ------------------------------------------------------------ the extracts
ConceptRowValues == [id : Codes, active : {"0", "1"}]

TermOf(descId) == IF descId = "D1" THEN "term D1" ELSE "term D2"

DescRowValues ==
  {[id |-> d, conceptId |-> c, active |-> "1", term |-> TermOf(d), typeId |-> SYNONYM] :
      d \in DescIds, c \in Codes}
  \cup {[id |-> "D1", conceptId |-> "A", active |-> "0", term |-> TermOf("D1"),
         typeId |-> SYNONYM]}

RelRowValues ==
  {[sourceId |-> s, destinationId |-> d, typeId |-> t, active |-> "1"] :
      s \in Codes, d \in Codes, t \in TypeIds}
  \cup {[sourceId |-> "A", destinationId |-> "B", typeId |-> IS_A_TYPE, active |-> "0"]}

\* The extracts of the setup "bulk": two concepts, more descriptions than
\* one search returns, one relationship.
BulkSize == TopK + 2

BulkIds == <<"B01", "B02", "B03", "B04", "B05", "B06", "B07", "B08", "B09", "B10",
             "B11", "B12">>

BulkTerms == <<"angle 6", "angle 0", "angle 3", "angle 1", "angle 5", "angle 2",
               "angle 4", "angle 0", "angle 6", "angle 3", "angle 1", "angle 5">>

BulkConcepts == <<[id |-> "A", active |-> "1"], [id |-> "B", active |-> "1"]>>

BulkDescs ==
  [i \in 1..BulkSize |->
     [id |-> BulkIds[i], conceptId |-> IF i % 2 = 1 THEN "A" ELSE "B", active |-> "1",
      term |-> BulkTerms[i], typeId |-> SYNONYM]]

BulkRels ==
  <<[sourceId |-> "A", destinationId |-> "B", typeId |-> IS_A_TYPE, active |-> "1"]>>

\* The setups: ingest_snomed on arbitrary small extracts, on the bulk
\* extracts, on the bulk extracts over the store that a run on them has
\* left, on the bulk extracts for a server that handles two requests at a
\* time, on extracts that hold only their header row, and ingest_fake_snomed.
Setups == {"arbitrary", "bulk", "rerun", "concurrent", "headers", "fake"}


VARIABLES
  setup,         \* which job runs, and on which extracts
  indexLive,     \* whether the store's vector index takes up later writes
  q,             \* ingest_fake_snomed: how many of its queries have run
  found,         \* ingest_fake_snomed: nodes, the Description nodes it read back
  embedded,      \* ingest_fake_snomed: how many of them have their embedding
  BATCH_SIZE,    \* ingest_snomed.BATCH_SIZE, fixed for a run
  files,         \* which of the three extracts exist on disk
  pc,            \* where the ingestion job stands
  conceptRows,   \* the Concept rows load_csv has yielded so far
  descRows,      \* the Description rows load_csv has yielded so far
  relRows,       \* the Relationship rows load_csv has yielded so far
  loaded_ids,    \* ingest_snomed's loaded_ids
  batch,         \* ingest_snomed's batch (Concept pass, Description pass)
  batch_isa,     \* ingest_snomed's batch_isa
  batch_assoc,   \* ingest_snomed's batch_assoc
  nodes,         \* the store's nodes
  edges,         \* the store's edges
  vindex,        \* the store's vector index snomed_description_index
  req            \* server.py: the requests being served

config == <<setup, indexLive, BATCH_SIZE, files>>

fakeVars == <<q, found, embedded>>

vars == <<setup, indexLive, q, found, embedded, BATCH_SIZE, files, pc, conceptRows, descRows, relRows, loaded_ids,
          batch, batch_isa, batch_assoc, nodes, edges, vindex, req>>

ingestVars == <<q, found, embedded, pc, conceptRows, descRows, relRows, loaded_ids,
                batch, batch_isa, batch_assoc>>

storeVars == <<nodes, edges, vindex>>

\* ---------------------------------------------------------------- the store
\* A node, with every property the three programs read or write; NULL is a
\* property the node does not have.
ConceptNode(sctid, id, active) ==
  [label |-> "Concept", sctid |-> sctid, id |-> id, active |-> active, term |-> NULL,
   type |-> NULL, embedding |-> NoEmbedding]

DescriptionNode(sctid, term, type, embedding) ==
  [label |-> "Description", sctid |-> sctid, id |-> NULL, active |-> NULL, term |-> term,
   type |-> type, embedding |-> embedding]

NoIndex == [exists |-> FALSE, entries |-> {}]

\* MATCH (c:Concept {sctid: x}): the internal ids of the matching nodes.
MatchConcept(ns, sctid) ==
  {i \in 1..Len(ns) : ns[i].label = "Concept" /\ ns[i].sctid = sctid}

\* MergeConcept with CREATE in the place of MERGE.
MergeConcept_Create(ns, sctid) == Append(ns, ConceptNode(sctid, NULL, NULL))

\* MERGE (:Concept {sctid: x}) for one row.
MergeConcept(ns, sctid) ==
  IF MatchConcept(ns, sctid) # {} THEN ns ELSE Append(ns, ConceptNode(sctid, NULL, NULL))

\* UNWIND $batch as row MERGE (:Concept {sctid: row.sctid})
RECURSIVE MergeConcepts(_, _)
MergeConcepts(ns, b) ==
  IF b = <<>> THEN ns
  ELSE MergeConcepts(MergeConcept(ns, Head(b).sctid), Tail(b))

\* The elements of a set of integers, in increasing order.
RECURSIVE Ascending(_)
Ascending(S) ==
  IF S = {} THEN <<>>
  ELSE LET m == CHOOSE x \in S : \A y \in S : x <= y
       IN <<m>> \o Ascending(S \ {m})

\* CREATE (d:Description {...}) CREATE (c)-[:HAS_DESCRIPTION]->(d), once for
\* every Concept node the row's MATCH found; st is [nodes, edges].
RECURSIVE CreateDescriptionFor(_, _, _)
CreateDescriptionFor(st, row, owners) ==
  IF owners = <<>> THEN st
  ELSE LET ns == Append(st.nodes,
                        DescriptionNode(row.id, row.term, row.typeId, row.embedding))
           es == Append(st.edges,
                        [label |-> "HAS_DESCRIPTION", src |-> Head(owners), dst |-> Len(ns)])
       IN CreateDescriptionFor([nodes |-> ns, edges |-> es], row, Tail(owners))

\* UNWIND $batch as row MATCH (c:Concept {sctid: row.conceptId}) CREATE ... CREATE ...
RECURSIVE CreateDescriptions(_, _)
CreateDescriptions(st, b) ==
  IF b = <<>> THEN st
  ELSE CreateDescriptions(
         CreateDescriptionFor(st, Head(b), Ascending(MatchConcept(st.nodes, Head(b).conceptId))),
         Tail(b))

\* MergeEdge with CREATE in the place of MERGE.
MergeEdge_Create(es, label, a, b) == Append(es, [label |-> label, src |-> a, dst |-> b])

\* MERGE (a)-[:label]->(b) for one matched pair of nodes.
MergeEdge(es, label, a, b) ==
  IF \E i \in 1..Len(es) : es[i].label = label /\ es[i].src = a /\ es[i].dst = b
  THEN es
  ELSE Append(es, [label |-> label, src |-> a, dst |-> b])

\* The pairs <<a, b>> of a set product, in increasing order.
PairsAscending(S, T) ==
  LET sa == Ascending(S)
      ta == Ascending(T)
  IN [k \in 1..(Len(sa) * Len(ta)) |->
        <<sa[((k - 1) \div Len(ta)) + 1], ta[((k - 1) % Len(ta)) + 1]>>]

RECURSIVE MergeEdgePairs(_, _, _)
MergeEdgePairs(es, label, pairs) ==
  IF pairs = <<>> THEN es
  ELSE MergeEdgePairs(MergeEdge(es, label, Head(pairs)[1], Head(pairs)[2]), label, Tail(pairs))

\* UNWIND $batch as row MATCH (a:Concept {sctid: row.source}),
\* (b:Concept {sctid: row.dest}) MERGE (a)-[:label]->(b)
RECURSIVE MergeEdges(_, _, _, _)
MergeEdges(ns, es, label, b) ==
  IF b = <<>> THEN es
  ELSE MergeEdges(ns,
                  MergeEdgePairs(es, label,
                                 PairsAscending(MatchConcept(ns, Head(b).source),
                                                MatchConcept(ns, Head(b).dest))),
                  label, Tail(b))

\* CREATE VECTOR INDEX snomed_description_index ON :Description(embedding):
\* the index over the Description nodes that carry an embedding.
CreateVectorIndex(ns) ==
  [exists |-> TRUE,
   entries |-> {i \in 1..Len(ns) :
                  ns[i].label = "Description" /\ ns[i].embedding # NoEmbedding}]

\* --------------------------------------------------------- what a run starts from
EmptyStore == [nodes |-> <<>>, edges |-> <<>>, vindex |-> NoIndex]

\* What an earlier load of the concepts A and B, a description of A and
\* A IS_A B has left in the store.
EarlierLoad ==
  [nodes |-> <<ConceptNode("A", NULL, NULL), ConceptNode("B", NULL, NULL),
               DescriptionNode("D1", "term D1", SYNONYM, Embed("term D1"))>>,
   edges |-> <<[label |-> "HAS_DESCRIPTION", src |-> 1, dst |-> 3],
               [label |-> "IS_A", src |-> 1, dst |-> 2]>>,
   vindex |-> [exists |-> TRUE, entries |-> {3}]]

PriorStores == {EmptyStore, EarlierLoad}

\* The requests the server handles, and a request slot at rest.
Slots == IF setup = "concurrent" THEN {"r1", "r2"} ELSE {"r1"}

Requests == DOMAIN req

NoReply == [status_code |-> 0, content |-> <<>>]

Idle ==
  [pc |-> "idle", via |-> NULL, env |-> <<>>, mode |-> NULL, call_id |-> NULL,
   symptom_text |-> NULL, embedding |-> NoEmbedding, session |-> "none",
   candidates |-> <<>>, conditions |-> {}, reply |-> NoReply, logs |-> <<>>]

FileNames == {"Concept", "Desc", "Rel"}

RowsRead == Len(conceptRows) + Len(descRows) + Len(relRows)

\* The setups that read the bulk extracts.
ReadsBulk == setup \in {"bulk", "rerun", "concurrent"}

\* load_csv: the rows the reader can yield next, given the rows read so far
\* (any row of the small domain for an arbitrary extract, the next row of
\* the file for a fixed one).
NextRows(values, fixed, read) ==
  IF setup = "arbitrary"
  THEN IF RowsRead < MaxRows THEN values ELSE {}
  ELSE LET f == IF ReadsBulk THEN fixed ELSE <<>>
       IN IF Len(read) < Len(f) THEN {f[Len(read) + 1]} ELSE {}

\* load_csv: whether the reader can be at the end of its file.
AtEnd(fixed, read) ==
  \/ setup = "arbitrary"
  \/ Len(read) = Len(IF ReadsBulk THEN fixed ELSE <<>>)


\* ------------------------------------------------------------ ingest_snomed
\* check_files without its sys.exit(1).
check_files_NoExit ==
  /\ pc = "start"
  /\ pc' = "cleanup"
  /\ UNCHANGED <<config, req, fakeVars, conceptRows, descRows, relRows, loaded_ids,
                 batch, batch_isa, batch_assoc, nodes, edges, vindex>>

\* check_files: exit(1) when an extract is missing.
check_files ==
  /\ pc = "start"
  /\ pc' = IF files = FileNames THEN "cleanup" ELSE "aborted"
  /\ UNCHANGED <<config, req, fakeVars, conceptRows, descRows, relRows, loaded_ids,
                 batch, batch_isa, batch_assoc, nodes, edges, vindex>>

\* The cleanup step without the call of nuke_database.
nuke_database_Skipped ==
  /\ pc = "cleanup"
  /\ pc' = "concepts"
  /\ UNCHANGED <<config, req, fakeVars, conceptRows, descRows, relRows, loaded_ids,
                 batch, batch_isa, batch_assoc, nodes, edges, vindex>>

\* nuke_database, then the two CREATE INDEX statements (label-property
\* indexes, which hold no data of their own).
nuke_database ==
  /\ pc = "cleanup"
  /\ nodes' = <<>>
  /\ edges' = <<>>
  /\ vindex' = NoIndex
  /\ pc' = "concepts"
  /\ UNCHANGED <<config, req, fakeVars, conceptRows, descRows, relRows, loaded_ids,
                 batch, batch_isa, batch_assoc>>

\* The batch after a Concept row.
ConceptBatchAfter(b, row) ==
  IF row.active = "1" THEN Append(b, [sctid |-> row.id]) ELSE b

\* The accepted ids after a Concept row.
LoadedAfter(ids, row) ==
  IF row.active = "1" THEN ids \cup {row.id} ELSE ids

\* One iteration of "for row in load_csv(CONCEPT_FILE)".
ConceptRow ==
  /\ pc = "concepts"
  /\ \E row \in NextRows(ConceptRowValues, BulkConcepts, conceptRows), ok \in BOOLEAN :
       LET b == ConceptBatchAfter(batch, row)
       IN /\ conceptRows' = Append(conceptRows, row)
          /\ loaded_ids' = LoadedAfter(loaded_ids, row)
          /\ IF Len(b) >= BATCH_SIZE
             THEN IF ok
                  THEN /\ nodes' = MergeConcepts(nodes, b)
                       /\ batch' = <<>>
                       /\ pc' = pc
                  ELSE /\ nodes' = nodes
                       /\ batch' = b
                       /\ pc' = "failed"
             ELSE /\ ok
                  /\ nodes' = nodes
                  /\ batch' = b
                  /\ pc' = pc
  /\ UNCHANGED <<config, req, fakeVars, descRows, relRows, batch_isa, batch_assoc, edges, vindex>>

\* ConceptsDone without the "if batch:" write of what is left.
ConceptsDone_NoFlush ==
  /\ pc = "concepts"
  /\ AtEnd(BulkConcepts, conceptRows)
  /\ pc' = "descriptions"
  /\ batch' = <<>>
  /\ UNCHANGED <<config, req, fakeVars, conceptRows, descRows, relRows, loaded_ids,
                 batch_isa, batch_assoc, nodes, edges, vindex>>

\* The end of the Concept file: "if batch:" flushes what is left.
ConceptsDone ==
  /\ pc = "concepts"
  /\ AtEnd(BulkConcepts, conceptRows)
  /\ \E ok \in BOOLEAN :
       IF batch # <<>>
       THEN IF ok
            THEN /\ nodes' = MergeConcepts(nodes, batch)
                 /\ pc' = "descriptions"
            ELSE /\ nodes' = nodes
                 /\ pc' = "failed"
       ELSE /\ ok
            /\ nodes' = nodes
            /\ pc' = "descriptions"
  \* "batch = []" at the start of step 3
  /\ batch' = IF pc' = "descriptions" THEN <<>> ELSE batch
  /\ UNCHANGED <<config, req, fakeVars, conceptRows, descRows, relRows, loaded_ids,
                 batch_isa, batch_assoc, edges, vindex>>

\* DescAccepted without the membership test.
DescAccepted_NoMembership(row, ids) == row.active = "1"

\* Whether the Description pass keeps a row.
DescAccepted(row, ids) == row.active = "1" /\ row.conceptId \in ids

\* The batch after a Description row.
DescBatchAfter(b, row, ids) ==
  IF DescAccepted(row, ids)
  THEN Append(b, [id |-> row.id, conceptId |-> row.conceptId, term |-> row.term,
                  typeId |-> row.typeId])
  ELSE b

\* "A. ENCODE" and "B. ATTACH": every item gets the embedding of its term.
AttachEmbeddings(b) ==
  [i \in 1..Len(b) |->
     [id |-> b[i].id, conceptId |-> b[i].conceptId, term |-> b[i].term,
      typeId |-> b[i].typeId, embedding |-> Embed(b[i].term)]]

\* What a call into the embedding model or the store can do.
Outcomes == {"ok", "encode_fails", "write_fails"}

\* FlushDescriptions with an except clause that goes on to the next row.
FlushDescriptions_Continue(b, outcome) ==
  LET withEmb == AttachEmbeddings(b)
      st == CreateDescriptions([nodes |-> nodes, edges |-> edges], withEmb)
  IN CASE outcome = "ok" ->
            [nodes |-> st.nodes, edges |-> st.edges, batch |-> <<>>, failed |-> FALSE]
       [] outcome = "encode_fails" ->
            [nodes |-> nodes, edges |-> edges, batch |-> b, failed |-> FALSE]
       [] OTHER ->
            [nodes |-> nodes, edges |-> edges, batch |-> withEmb, failed |-> FALSE]

\* Encode, attach and insert one batch of descriptions: the store and the
\* batch afterwards, and whether the job goes on.
FlushDescriptions(b, outcome) ==
  LET withEmb == AttachEmbeddings(b)
      st == CreateDescriptions([nodes |-> nodes, edges |-> edges], withEmb)
  IN CASE outcome = "ok" ->
            [nodes |-> st.nodes, edges |-> st.edges, batch |-> <<>>, failed |-> FALSE]
       [] outcome = "encode_fails" ->
            [nodes |-> nodes, edges |-> edges, batch |-> b, failed |-> TRUE]
       [] OTHER ->
            [nodes |-> nodes, edges |-> edges, batch |-> withEmb, failed |-> TRUE]

\* One iteration of "for row in load_csv(DESC_FILE)".
DescRow ==
  /\ pc = "descriptions"
  /\ \E row \in NextRows(DescRowValues, BulkDescs, descRows), outcome \in Outcomes :
       LET b == DescBatchAfter(batch, row, loaded_ids)
           r == FlushDescriptions(b, outcome)
       IN /\ descRows' = Append(descRows, row)
          /\ IF Len(b) >= BATCH_SIZE
             THEN /\ nodes' = r.nodes
                  /\ edges' = r.edges
                  /\ batch' = r.batch
                  /\ pc' = IF r.failed THEN "failed" ELSE pc
             ELSE /\ outcome = "ok"
                  /\ nodes' = nodes
                  /\ edges' = edges
                  /\ batch' = b
                  /\ pc' = pc
  /\ UNCHANGED <<config, req, fakeVars, conceptRows, relRows, loaded_ids, batch_isa,
                 batch_assoc, vindex>>

\* DescsDone without the write of the final batch.
DescsDone_NoFlush ==
  /\ pc = "descriptions"
  /\ AtEnd(BulkDescs, descRows)
  /\ pc' = "relationships"
  /\ UNCHANGED <<config, req, fakeVars, conceptRows, descRows, relRows, loaded_ids,
                 batch, batch_isa, batch_assoc, nodes, edges, vindex>>

\* The end of the Description file: "Flush final batch".
DescsDone ==
  /\ pc = "descriptions"
  /\ AtEnd(BulkDescs, descRows)
  /\ \E outcome \in Outcomes :
       LET r == FlushDescriptions(batch, outcome)
       IN IF batch # <<>>
          THEN /\ nodes' = r.nodes
               /\ edges' = r.edges
               \* the final flush does not reset batch
               /\ batch' = IF r.failed THEN r.batch ELSE AttachEmbeddings(batch)
               /\ pc' = IF r.failed THEN "failed" ELSE "relationships"
          ELSE /\ outcome = "ok"
               /\ nodes' = nodes
               /\ edges' = edges
               /\ batch' = batch
               /\ pc' = "relationships"
  /\ UNCHANGED <<config, req, fakeVars, conceptRows, descRows, relRows, loaded_ids,
                 batch_isa, batch_assoc, vindex>>

\* Whether the Relationship pass keeps a row.
RelAccepted(row, ids) ==
  /\ row.active = "1"
  /\ row.typeId \in DOMAIN rels_map
  /\ row.sourceId \in ids
  /\ row.destinationId \in ids

\* Whether a kept row goes to batch_isa (else to batch_assoc).
IsHierarchical(row) == row.typeId = "116680003"

RelItem(row) == [source |-> row.sourceId, dest |-> row.destinationId]

\* One iteration of "for row in load_csv(REL_FILE)": append, then the two
\* "if len(...) >= BATCH_SIZE" flushes in turn.
RelRow ==
  /\ pc = "relationships"
  /\ \E row \in NextRows(RelRowValues, BulkRels, relRows), okIsa \in BOOLEAN, okAssoc \in BOOLEAN :
       LET bi == IF RelAccepted(row, loaded_ids) /\ IsHierarchical(row)
                 THEN Append(batch_isa, RelItem(row)) ELSE batch_isa
           ba == IF RelAccepted(row, loaded_ids) /\ ~IsHierarchical(row)
                 THEN Append(batch_assoc, RelItem(row)) ELSE batch_assoc
           flushIsa == Len(bi) >= BATCH_SIZE
           e1 == IF flushIsa /\ okIsa THEN MergeEdges(nodes, edges, "IS_A", bi) ELSE edges
           failedIsa == flushIsa /\ ~okIsa
           flushAssoc == ~failedIsa /\ Len(ba) >= BATCH_SIZE
           e2 == IF flushAssoc /\ okAssoc
                 THEN MergeEdges(nodes, e1, "ASSOCIATED_WITH", ba) ELSE e1
           failedAssoc == flushAssoc /\ ~okAssoc
       IN /\ (~flushIsa => okIsa)
          /\ (~flushAssoc => okAssoc)
          /\ relRows' = Append(relRows, row)
          /\ edges' = e2
          /\ batch_isa' = IF flushIsa /\ okIsa THEN <<>> ELSE bi
          /\ batch_assoc' = IF flushAssoc /\ okAssoc THEN <<>> ELSE ba
          /\ pc' = IF failedIsa \/ failedAssoc THEN "failed" ELSE pc
  /\ UNCHANGED <<config, req, fakeVars, conceptRows, descRows, loaded_ids, batch, nodes, vindex>>

\* RelsDone without the writes of what is left in the two buffers.
RelsDone_NoFlush ==
  /\ pc = "relationships"
  /\ AtEnd(BulkRels, relRows)
  /\ pc' = "index"
  /\ UNCHANGED <<config, req, fakeVars, conceptRows, descRows, relRows, loaded_ids, batch,
                 batch_isa, batch_assoc, nodes, edges, vindex>>

\* The end of the Relationship file: "if batch_isa:" and "if batch_assoc:".
RelsDone ==
  /\ pc = "relationships"
  /\ AtEnd(BulkRels, relRows)
  /\ \E okIsa \in BOOLEAN, okAssoc \in BOOLEAN :
       LET flushIsa == batch_isa # <<>>
           e1 == IF flushIsa /\ okIsa
                 THEN MergeEdges(nodes, edges, "IS_A", batch_isa) ELSE edges
           failedIsa == flushIsa /\ ~okIsa
           flushAssoc == ~failedIsa /\ batch_assoc # <<>>
           e2 == IF flushAssoc /\ okAssoc
                 THEN MergeEdges(nodes, e1, "ASSOCIATED_WITH", batch_assoc) ELSE e1
           failedAssoc == flushAssoc /\ ~okAssoc
       IN /\ (~flushIsa => okIsa)
          /\ (~flushAssoc => okAssoc)
          /\ edges' = e2
          /\ pc' = IF failedIsa \/ failedAssoc THEN "failed" ELSE "index"
  /\ UNCHANGED <<config, req, fakeVars, conceptRows, descRows, relRows, loaded_ids, batch,
                 batch_isa, batch_assoc, nodes, vindex>>

\* ingest_snomed with a batch size above the number of rows: each pass
\* collects all of its rows and writes them in its final flush.
RECURSIVE AllConceptItems(_, _)
AllConceptItems(rows, b) ==
  IF rows = <<>> THEN b ELSE AllConceptItems(Tail(rows), ConceptBatchAfter(b, Head(rows)))

RECURSIVE AllLoadedIds(_, _)
AllLoadedIds(rows, ids) ==
  IF rows = <<>> THEN ids ELSE AllLoadedIds(Tail(rows), LoadedAfter(ids, Head(rows)))

RECURSIVE AllDescItems(_, _, _)
AllDescItems(rows, b, ids) ==
  IF rows = <<>> THEN b ELSE AllDescItems(Tail(rows), DescBatchAfter(b, Head(rows), ids), ids)

RECURSIVE AllRelItems(_, _, _, _)
AllRelItems(rows, b, ids, isa) ==
  IF rows = <<>> THEN b
  ELSE AllRelItems(Tail(rows),
                   IF RelAccepted(Head(rows), ids) /\ IsHierarchical(Head(rows)) = isa
                   THEN Append(b, RelItem(Head(rows))) ELSE b,
                   ids, isa)

OneBatchRun(crows, drows, rrows) ==
  LET ids == AllLoadedIds(crows, {})
      ns == MergeConcepts(<<>>, AllConceptItems(crows, <<>>))
      st == CreateDescriptions([nodes |-> ns, edges |-> <<>>],
                               AttachEmbeddings(AllDescItems(drows, <<>>, ids)))
      e1 == MergeEdges(st.nodes, st.edges, "IS_A", AllRelItems(rrows, <<>>, ids, TRUE))
      e2 == MergeEdges(st.nodes, e1, "ASSOCIATED_WITH", AllRelItems(rrows, <<>>, ids, FALSE))
  IN [nodes |-> st.nodes, edges |-> e2]

\* Step 5: CREATE VECTOR INDEX snomed_description_index.
BuildIndex ==
  /\ pc = "index"
  /\ \E ok \in BOOLEAN :
       IF ok
       THEN /\ vindex' = CreateVectorIndex(nodes)
            /\ pc' = "done"
       ELSE /\ vindex' = vindex
            /\ pc' = "failed"
  /\ UNCHANGED <<config, req, fakeVars, conceptRows, descRows, relRows, loaded_ids, batch,
                 batch_isa, batch_assoc, nodes, edges>>

\* ------------------------------------------------------- ingest_fake_snomed
NodeQuery(id, active, term, type) ==
  [kind |-> "node", id |-> id, active |-> active, term |-> term, type |-> type,
   src |-> NULL, dst |-> NULL]

RelQuery(src, dst) ==
  [kind |-> "rel", id |-> NULL, active |-> NULL, term |-> NULL, type |-> NULL,
   src |-> src, dst |-> dst]

\* The list queries of ingest().
queries ==
  << NodeQuery("29857009", NULL, "Chest pain", "Synonym"),
     NodeQuery("422587007", NULL, "Nausea", "Synonym"),
     NodeQuery("162059005", NULL, "Upset stomach", "Synonym"),
     NodeQuery("404640003", NULL, "Dizziness", "Synonym"),
     NodeQuery("22298006", "true", "Myocardial infarction", "FSN"),
     NodeQuery("235595009", "true", "Gastroesophageal reflux disease", "FSN"),
     NodeQuery("73410007", "true", "Panic attack", "FSN"),
     RelQuery("22298006", "29857009"),
     RelQuery("22298006", "422587007"),
     RelQuery("22298006", "404640003"),
     RelQuery("235595009", "29857009"),
     RelQuery("235595009", "162059005"),
     NodeQuery("239516002", NULL, "Knee pain", "Synonym"),
     NodeQuery("125667009", NULL, "Bruising", "Synonym"),
     NodeQuery("300860001", "true", "Sprain of knee", "FSN"),
     NodeQuery("239720002", "true", "Osteoarthritis of knee", "FSN"),
     RelQuery("300860001", "239516002"),
     RelQuery("300860001", "125667009"),
     RelQuery("239720002", "239516002") >>

\* MatchConceptById with the property sctid in the place of id.
MatchConceptById_BySctid(ns, id) ==
  {i \in 1..Len(ns) : ns[i].label = "Concept" /\ ns[i].sctid = id}

\* MATCH (c:Concept {id: x}): the internal ids of the matching nodes.
MatchConceptById(ns, id) ==
  {i \in 1..Len(ns) : ns[i].label = "Concept" /\ ns[i].id = id}

RECURSIVE CreateEdgePairs(_, _, _)
CreateEdgePairs(es, label, pairs) ==
  IF pairs = <<>> THEN es
  ELSE CreateEdgePairs(
         Append(es, [label |-> label, src |-> Head(pairs)[1], dst |-> Head(pairs)[2]]),
         label, Tail(pairs))

\* session.run(q) for one query of the list; st is [nodes, edges].
RunQuery(st, query) ==
  IF query.kind = "node"
  THEN LET ns == st.nodes \o
                 << ConceptNode(NULL, query.id, query.active),
                    DescriptionNode(NULL, query.term, query.type, NoEmbedding) >>
       IN [nodes |-> ns,
           edges |-> Append(st.edges, [label |-> "HAS_DESCRIPTION",
                                       src |-> Len(ns) - 1, dst |-> Len(ns)])]
  ELSE [nodes |-> st.nodes,
        edges |-> CreateEdgePairs(st.edges, "ASSOCIATED_WITH",
                                  PairsAscending(MatchConceptById(st.nodes, query.src),
                                                 MatchConceptById(st.nodes, query.dst)))]

\* The index once the store has changed: an index that takes up later
\* writes follows the nodes, another keeps what it had of them.
IndexAfterWrite(ix, ns) ==
  IF ~ix.exists THEN ix
  ELSE IF indexLive THEN CreateVectorIndex(ns)
  ELSE [exists |-> TRUE, entries |-> ix.entries \cap CreateVectorIndex(ns).entries]

\* "Clearing old data...": MATCH (n) DETACH DELETE n.
FakeClear ==
  /\ pc = "fake_clear"
  /\ \E ok \in BOOLEAN :
       IF ok
       THEN /\ nodes' = <<>>
            /\ edges' = <<>>
            /\ vindex' = [exists |-> vindex.exists, entries |-> {}]
            /\ pc' = "fake_drop"
       ELSE /\ UNCHANGED <<nodes, edges, vindex>>
            /\ pc' = "failed"
  /\ UNCHANGED <<config, req, fakeVars, conceptRows, descRows, relRows, loaded_ids, batch,
                 batch_isa, batch_assoc>>

\* "try: DROP VECTOR INDEX snomed_description_index; except: pass".
FakeDropIndex ==
  /\ pc = "fake_drop"
  /\ vindex' = NoIndex
  /\ pc' = "fake_index"
  /\ UNCHANGED <<config, req, fakeVars, conceptRows, descRows, relRows, loaded_ids, batch,
                 batch_isa, batch_assoc, nodes, edges>>

\* CREATE VECTOR INDEX snomed_description_index, before any node exists.
FakeCreateIndex ==
  /\ pc = "fake_index"
  /\ \E ok \in BOOLEAN :
       IF ok
       THEN /\ vindex' = CreateVectorIndex(nodes)
            /\ pc' = "fake_queries"
       ELSE /\ vindex' = vindex
            /\ pc' = "failed"
  /\ UNCHANGED <<config, req, fakeVars, conceptRows, descRows, relRows, loaded_ids, batch,
                 batch_isa, batch_assoc, nodes, edges>>

\* One iteration of "for q in queries: session.run(q)".
FakeQuery ==
  /\ pc = "fake_queries"
  /\ q < Len(queries)
  /\ \E ok \in BOOLEAN :
       LET st == RunQuery([nodes |-> nodes, edges |-> edges], queries[q + 1])
       IN IF ok
          THEN /\ nodes' = st.nodes
               /\ edges' = st.edges
               /\ vindex' = IndexAfterWrite(vindex, st.nodes)
               /\ q' = q + 1
               /\ pc' = pc
          ELSE /\ UNCHANGED <<nodes, edges, vindex, q>>
               /\ pc' = "failed"
  /\ UNCHANGED <<config, req, found, embedded, conceptRows, descRows, relRows, loaded_ids, batch,
                 batch_isa, batch_assoc>>

\* MATCH (d:Description) RETURN id(d) as id, d.term as term; nodes = list(result)
FakeCollect ==
  /\ pc = "fake_queries"
  /\ q = Len(queries)
  /\ \E ok \in BOOLEAN :
       IF ok
       THEN /\ found' = LET ds == Ascending({i \in 1..Len(nodes) :
                                               nodes[i].label = "Description"})
                        IN [j \in 1..Len(ds) |-> [id |-> ds[j], term |-> nodes[ds[j]].term]]
            /\ pc' = "fake_embed"
       ELSE /\ found' = found
            /\ pc' = "failed"
  /\ UNCHANGED <<config, req, q, embedded, conceptRows, descRows, relRows, loaded_ids, batch,
                 batch_isa, batch_assoc, nodes, edges, vindex>>

\* MATCH (d:Description) WHERE id(d) = $id SET d.embedding = $vector
SetEmbedding(ns, id, vector) ==
  [i \in 1..Len(ns) |->
     IF i = id /\ ns[i].label = "Description"
     THEN [ns[i] EXCEPT !.embedding = vector]
     ELSE ns[i]]

\* One iteration of "for node in nodes": get_embedding, then the SET.
FakeEmbed ==
  /\ pc = "fake_embed"
  /\ embedded < Len(found)
  /\ \E outcome \in Outcomes :
       LET ns == SetEmbedding(nodes, found[embedded + 1].id, Embed(found[embedded + 1].term))
       IN IF outcome = "ok"
          THEN /\ nodes' = ns
               /\ vindex' = IndexAfterWrite(vindex, ns)
               /\ embedded' = embedded + 1
               /\ pc' = pc
          ELSE /\ UNCHANGED <<nodes, vindex, embedded>>
               /\ pc' = "failed"
  /\ UNCHANGED <<config, req, q, found, conceptRows, descRows, relRows, loaded_ids, batch,
                 batch_isa, batch_assoc, edges>>

\* "Success! Ingested ..."
FakeDone ==
  /\ pc = "fake_embed"
  /\ embedded = Len(found)
  /\ pc' = "done"
  /\ UNCHANGED <<config, req, fakeVars, conceptRows, descRows, relRows, loaded_ids, batch,
                 batch_isa, batch_assoc, nodes, edges, vindex>>

\* ------------------------------------------------------------------- JSON
\* A JSON text is a list of tokens; a token is a punctuation mark, a string,
\* a number or null.
Punct(c) == [t |-> c, v |-> ""]

Str(text) == [t |-> "str", v |-> text]

Num(n) == [t |-> "num", v |-> ToString(n)]

Null == [t |-> "null", v |-> ""]

\* dict.get(key, default)
Get(d, key, default) == IF key \in DOMAIN d THEN d[key] ELSE default

\* Python's truth value of a string or None.
Truthy(v) == v # NULL /\ v # ""

\* The members of a JSON object, "key": value, ..., read into a dict; a later
\* key overrides an earlier one.
RECURSIVE ParseMembers(_, _)
ParseMembers(toks, acc) ==
  IF Len(toks) >= 3 /\ toks[1].t = "str" /\ toks[2].t = ":" /\ toks[3].t \in {"str", "null"}
  THEN LET val == IF toks[3].t = "str" THEN toks[3].v ELSE NULL
           acc2 == [key \in DOMAIN acc \cup {toks[1].v} |->
                      IF key = toks[1].v THEN val ELSE acc[key]]
       IN IF Len(toks) = 3 THEN [ok |-> TRUE, val |-> acc2]
          ELSE IF Len(toks) > 4 /\ toks[4].t = ","
               THEN ParseMembers(SubSeq(toks, 5, Len(toks)), acc2)
               ELSE [ok |-> FALSE, val |-> <<>>]
  ELSE [ok |-> FALSE, val |-> <<>>]

\* json.loads raising on every arguments string.
loads_Raises(toks) == [ok |-> FALSE, val |-> <<>>]

\* json.loads of an arguments string: the dict, or ok = FALSE where
\* json.loads raises.
loads(toks) ==
  IF Len(toks) >= 2 /\ toks[1].t = "{" /\ toks[Len(toks)].t = "}"
  THEN IF Len(toks) = 2 THEN [ok |-> TRUE, val |-> <<>>]
       ELSE ParseMembers(SubSeq(toks, 2, Len(toks) - 1), <<>>)
  ELSE [ok |-> FALSE, val |-> <<>>]

\* json.dumps of one candidate {"id": ..., "term": ..., "score": ...}.
DumpsCandidate(c) ==
  << Punct("{"), Str("id"), Punct(":"), IF c.id = NULL THEN Null ELSE Str(c.id), Punct(","),
     Str("term"), Punct(":"), IF c.term = NULL THEN Null ELSE Str(c.term), Punct(","),
     Str("score"), Punct(":"), Num(c.score), Punct("}") >>

RECURSIVE DumpsItems(_)
DumpsItems(cs) ==
  IF cs = <<>> THEN <<>>
  ELSE IF Len(cs) = 1 THEN DumpsCandidate(cs[1])
  ELSE DumpsCandidate(cs[1]) \o <<Punct(",")>> \o DumpsItems(Tail(cs))

\* json.dumps(search_results)
dumps(cs) == <<Punct("[")>> \o DumpsItems(cs) \o <<Punct("]")>>

\* ------------------------------------------------------- inbound envelopes
Texts == {"", "chest pain", "knee pain"}

\* An arguments payload is a structured object or a string.
JDict(d) == [type |-> "dict", val |-> d]

JStr(toks) == [type |-> "str", val |-> toks]

\* None, where an arguments payload is expected.
JNone == [type |-> "none", val |-> <<>>]

ArgDicts == {<<>>} \cup {[symptom |-> t] : t \in Texts}

\* The caller's serialization of an arguments object.
SerializeArgs(d) ==
  IF DOMAIN d = {} THEN <<Punct("{"), Punct("}")>>
  ELSE <<Punct("{"), Str("symptom"), Punct(":"), Str(d.symptom), Punct("}")>>

\* A string that is not JSON.
Truncated == <<Punct("{"), Str("symptom")>>

ArgPayloads ==
  {JDict(d) : d \in ArgDicts} \cup {JStr(SerializeArgs(d)) : d \in ArgDicts}
    \cup {JStr(Truncated)}

Functions ==
  {[name |-> n, arguments |-> a] : n \in {"lookup_symptom", "get_weather"}, a \in ArgPayloads}
    \cup {[name |-> "lookup_symptom"], [arguments |-> JDict([symptom |-> "chest pain"])]}

FirstCalls ==
  {[id |-> "x1", function |-> f] : f \in Functions}
    \cup {[id |-> "x1"], [function |-> [name |-> "lookup_symptom",
                                        arguments |-> JDict([symptom |-> "chest pain"])]]}

LaterCalls ==
  {[id |-> "x2", function |-> [name |-> n, arguments |-> JDict([symptom |-> "knee pain"])]] :
     n \in {"lookup_symptom", "get_weather"}}

ToolCallLists ==
  {<<>>} \cup {<<c>> : c \in FirstCalls \cup LaterCalls}
    \cup {<<c, d>> : c \in FirstCalls, d \in LaterCalls}

Messages ==
  {[toolCalls |-> l] : l \in ToolCallLists}
    \cup {<<>>, [type |-> "status-update"],
          [type |-> "function-call",
           functionCall |-> [name |-> "lookup_symptom",
                             parameters |-> [symptom |-> "chest pain"],
                             toolCallId |-> "x1"]]}

\* The request bodies: JSON objects, and one body that is not JSON.
Envelopes ==
  {[json |-> TRUE, data |-> [message |-> m]] : m \in Messages}
    \cup {[json |-> TRUE, data |-> [symptom |-> t]] : t \in Texts}
    \cup {[json |-> TRUE, data |-> [message |-> <<>>, symptom |-> "knee pain"]],
          [json |-> TRUE, data |-> <<>>],
          [json |-> FALSE, data |-> <<>>]}

\* The request bodies of the server that handles two requests at a time.
ConcurrentEnvelopes ==
  {[json |-> TRUE,
    data |-> [message |-> [toolCalls |->
                <<[id |-> "x1", function |-> [name |-> "lookup_symptom",
                                              arguments |-> JDict([symptom |-> "chest pain"])]]>>]]],
   [json |-> TRUE,
    data |-> [message |-> [toolCalls |->
                <<[id |-> "x2", function |-> [name |-> "lookup_symptom",
                                              arguments |-> JStr(SerializeArgs([symptom |-> "knee pain"]))]]>>]]],
   [json |-> TRUE, data |-> [symptom |-> "knee pain"]],
   [json |-> TRUE, data |-> [message |-> [type |-> "status-update"]]]}

Inbound == IF setup = "concurrent" THEN ConcurrentEnvelopes ELSE Envelopes

\* ---------------------------------------------------------------- server.py
JSONResponse(content, status_code) == [status_code |-> status_code, content |-> content]

\* vector_search.search('snomed_description_index', 10, $embedding) YIELD
\* node, similarity: the ids of the K entries closest to the embedding (of
\* two equally close ones the older node first), in the store's order.
VectorSearch(ix, ns, embedding, limit) ==
  LET sim(n) == CosSim(embedding, ns[n].embedding)
      closer(m, n) == sim(m) > sim(n) \/ (sim(m) = sim(n) /\ m < n)
  IN Ascending({n \in ix.entries : Cardinality({m \in ix.entries : closer(m, n)}) < limit})

\* MATCH (c:Concept)-[:HAS_DESCRIPTION]->(node) RETURN c.sctid AS id,
\* node.term AS term, similarity AS score: the rows for one yielded node.
MatchOwners(ns, es, embedding, n) ==
  LET owners == Ascending({j \in 1..Len(es) :
                             /\ es[j].label = "HAS_DESCRIPTION"
                             /\ es[j].dst = n
                             /\ ns[es[j].src].label = "Concept"})
  IN [i \in 1..Len(owners) |->
        [id |-> ns[es[owners[i]].src].sctid, term |-> ns[n].term,
         score |-> CosSim(embedding, ns[n].embedding)]]

RECURSIVE MatchAll(_, _, _, _)
MatchAll(ns, es, embedding, found_nodes) ==
  IF found_nodes = <<>> THEN <<>>
  ELSE MatchOwners(ns, es, embedding, Head(found_nodes))
         \o MatchAll(ns, es, embedding, Tail(found_nodes))

\* One row put into rows that are in order: before the first row that does
\* not score higher.
RECURSIVE InsertByScore(_, _)
InsertByScore(row, rows) ==
  IF rows = <<>> THEN <<row>>
  ELSE IF Head(rows).score <= row.score THEN <<row>> \o rows
  ELSE <<Head(rows)>> \o InsertByScore(row, Tail(rows))

\* ORDER BY score DESC
RECURSIVE OrderByScoreDesc(_)
OrderByScoreDesc(rows) ==
  IF rows = <<>> THEN <<>>
  ELSE InsertByScore(Head(rows), OrderByScoreDesc(Tail(rows)))

\* session.run(query, embedding=embedding), read into candidates.
RunSearch(ix, ns, es, embedding) ==
  OrderByScoreDesc(MatchAll(ns, es, embedding, VectorSearch(ix, ns, embedding, TopK)))

\* "if 'symptom' in data" in the place of "if data.get('symptom')".
HasManualSymptom_KeyPresent(data) == "symptom" \in DOMAIN data

\* "if data.get('symptom'):"
HasManualSymptom(data) == Truthy(Get(data, "symptom", NULL))

\* function.get('arguments') without its default.
ArgsOf_NoDefault(function) == Get(function, "arguments", JNone)

\* args_raw = function.get('arguments', {})
ArgsOf(function) == Get(function, "arguments", JDict(<<>>))

\* "3. PARSE ARGUMENTS": json.loads for a string, the payload itself
\* otherwise; ok = FALSE where json.loads raises.
ParseArguments(args_raw) ==
  IF args_raw.type = "str"
  THEN LET parsed == loads(args_raw.val)
       IN [ok |-> parsed.ok, type |-> "dict", val |-> parsed.val]
  ELSE [ok |-> TRUE, type |-> args_raw.type, val |-> args_raw.val]

\* tool_calls[-1] in the place of tool_calls[0].
ProcessedCall_Last(tool_calls) == tool_calls[Len(tool_calls)]

\* "2. PROCESS FIRST TOOL CALL": call = tool_calls[0]
ProcessedCall(tool_calls) == tool_calls[1]

\* triage_webhook up to its first call of lookup_symptom or its response:
\* what the handler does with a request body.
Dispatch(env) ==
  LET data == env.data
      message == Get(data, "message", <<>>)
      tool_calls == Get(message, "toolCalls", <<>>)
      call == ProcessedCall(tool_calls)
      call_id == Get(call, "id", NULL)
      function == Get(call, "function", <<>>)
      name == Get(function, "name", NULL)
      args_raw == ArgsOf(function)
      args == ParseArguments(args_raw)
      symptom == Get(args.val, "symptom", NULL)
      toolLog == <<"Tool Call Detected">>
  IN IF ~env.json
     THEN [do |-> "raise", text |-> NULL, mode |-> NULL, call_id |-> NULL, logs |-> <<>>]
     ELSE IF tool_calls = <<>>
     THEN IF HasManualSymptom(data)
          THEN [do |-> "lookup", text |-> data.symptom, mode |-> "manual", call_id |-> NULL,
                logs |-> <<"Manual Postman/Curl Request Detected">>]
          ELSE [do |-> "ok", text |-> NULL, mode |-> NULL, call_id |-> NULL,
                logs |-> <<"Received heartbeat/status update (no tool calls).">>]
     ELSE IF ~args.ok
     THEN [do |-> "raise", text |-> NULL, mode |-> NULL, call_id |-> call_id, logs |-> <<>>]
     ELSE IF name = "lookup_symptom"
     THEN IF args.type # "dict"
          THEN [do |-> "raise", text |-> NULL, mode |-> NULL, call_id |-> call_id,
                logs |-> toolLog]
          ELSE IF Truthy(symptom)
          THEN [do |-> "lookup", text |-> symptom, mode |-> "tool", call_id |-> call_id,
                logs |-> toolLog]
          ELSE [do |-> "empty", text |-> NULL, mode |-> NULL, call_id |-> call_id,
                logs |-> toolLog \o <<"Tool call missing 'symptom' argument.">>]
     ELSE [do |-> "empty", text |-> NULL, mode |-> NULL, call_id |-> call_id, logs |-> toolLog]

\* Requests are served once the ingestion job has ended.
Serving == setup # "arbitrary" /\ pc \in {"done", "aborted"}

\* triage_webhook: a request comes in and is handled up to the call of
\* lookup_symptom, or up to the response when there is none.
triage_webhook(r) ==
  /\ Serving
  /\ req[r].pc = "idle"
  /\ \E env \in Inbound :
       LET d == Dispatch(env)
           base == [Idle EXCEPT !.via = "webhook", !.env = env, !.logs = d.logs,
                                !.call_id = d.call_id]
       IN req' = [req EXCEPT ![r] =
            CASE d.do = "lookup" ->
                   [base EXCEPT !.pc = "encode", !.mode = d.mode, !.symptom_text = d.text,
                                !.logs = d.logs \o <<"Embedding and searching">>]
              [] d.do = "ok" ->
                   [base EXCEPT !.pc = "replied",
                                !.reply = JSONResponse([status |-> "ok"], 200)]
              [] d.do = "empty" ->
                   [base EXCEPT !.pc = "replied", !.reply = JSONResponse(<<>>, 200)]
              [] OTHER ->
                   [base EXCEPT !.pc = "replied", !.logs = d.logs \o <<"Webhook Error">>,
                                !.reply = JSONResponse([error |-> "exception"], 500)]]
  /\ UNCHANGED <<config, ingestVars, storeVars>>

\* lookup_symptom called by something other than the webhook.
lookup_symptom(r) ==
  /\ Serving
  /\ req[r].pc = "idle"
  /\ \E text \in Texts :
       req' = [req EXCEPT ![r] =
                 [Idle EXCEPT !.via = "direct", !.pc = "encode", !.mode = "direct",
                              !.symptom_text = text,
                              !.logs = <<"Embedding and searching">>]]
  /\ UNCHANGED <<config, ingestVars, storeVars>>

\* lookup_symptom without its "except Exception": the failure reaches
\* triage_webhook's handler.
LookupFailed_Propagates(rec) ==
  [rec EXCEPT !.pc = "replied", !.candidates = <<>>,
              !.logs = rec.logs \o <<"Webhook Error">>,
              !.reply = JSONResponse([error |-> "exception"], 500)]

\* The with block left without the session being released.
CloseSession_Leaked(rec) == rec

\* The end of "with driver.session() as session:", on return and on raise.
CloseSession(rec) == [rec EXCEPT !.session = "closed"]

\* lookup_symptom's "except Exception": log, return [].
LookupFailed(rec) ==
  [rec EXCEPT !.pc = "return", !.candidates = <<>>,
              !.logs = rec.logs \o <<"DB Query Failed">>]

\* "1. Generate Embedding": model.encode(symptom_text).tolist()
Encode(r) ==
  /\ req[r].pc = "encode"
  /\ \E ok \in BOOLEAN :
       req' = [req EXCEPT ![r] =
                 IF ok
                 THEN [@ EXCEPT !.pc = "session", !.embedding = Embed(req[r].symptom_text)]
                 ELSE LookupFailed(@)]
  /\ UNCHANGED <<config, ingestVars, storeVars>>

\* "with driver.session() as session:"
OpenSession(r) ==
  /\ req[r].pc = "session"
  /\ \E ok \in BOOLEAN :
       req' = [req EXCEPT ![r] =
                 IF ok
                 THEN [@ EXCEPT !.pc = "query", !.session = "open"]
                 ELSE LookupFailed(@)]
  /\ UNCHANGED <<config, ingestVars, storeVars>>

\* session.run(query), the list of candidates, the log line, and the end of
\* the with block, which closes the session whether or not the query raised.
\* The procedure raises when the index does not exist.
Query(r) ==
  /\ req[r].pc = "query"
  /\ \E ok \in BOOLEAN :
       req' = [req EXCEPT ![r] =
                 IF ok /\ vindex.exists
                 THEN LET cs == RunSearch(vindex, nodes, edges, @.embedding)
                      IN [CloseSession(@) EXCEPT !.pc = "return", !.candidates = cs,
                                   !.logs = @ \o <<IF cs # <<>> THEN "Top Match"
                                                   ELSE "No results returned from DB.">>]
                 ELSE LookupFailed(CloseSession(@))]
  /\ UNCHANGED <<config, ingestVars, storeVars>>

\* lookup_symptom returns, and triage_webhook answers with what it returned.
Return(r) ==
  /\ req[r].pc = "return"
  /\ req' = [req EXCEPT ![r] =
       CASE @.mode = "tool" ->
              [@ EXCEPT !.pc = "replied",
                        !.reply = JSONResponse(
                                    [results |-> <<[toolCallId |-> req[r].call_id,
                                                    result |-> dumps(req[r].candidates)]>>], 200)]
         [] @.mode = "manual" ->
              [@ EXCEPT !.pc = "replied",
                        !.reply = JSONResponse([results |-> req[r].candidates], 200)]
         [] OTHER -> [@ EXCEPT !.pc = "returned"]]
  /\ UNCHANGED <<config, ingestVars, storeVars>>

\* Extended mode. The Concept nodes that own a Description with the term of
\* the best match.
BestConcepts(ns, es, cs) ==
  IF cs = <<>> THEN {}
  ELSE {es[j].src : j \in {k \in 1..Len(es) :
                             /\ es[k].label = "HAS_DESCRIPTION"
                             /\ ns[es[k].src].label = "Concept"
                             /\ ns[es[k].dst].term = cs[1].term}}

\* The Concept nodes one ASSOCIATED_WITH edge away from c, in either direction.
Neighbours(es, c) ==
  {es[j].src : j \in {k \in 1..Len(es) : es[k].label = "ASSOCIATED_WITH" /\ es[k].dst = c}}
    \cup {es[j].dst : j \in {k \in 1..Len(es) : es[k].label = "ASSOCIATED_WITH" /\ es[k].src = c}}

\* The fully-specified-name terms of a Concept node.
FsnTerms(ns, es, c) ==
  {ns[es[j].dst].term : j \in {k \in 1..Len(es) :
                                 /\ es[k].label = "HAS_DESCRIPTION"
                                 /\ es[k].src = c
                                 /\ ns[es[k].dst].type = "FSN"}}

\* The "potential conditions" of a list of candidates: the neighbours of the
\* best-matched concept that have a fully-specified name, with that name.
PotentialConditions(ns, es, cs) ==
  UNION {{[concept |-> n, term |-> t] : t \in FsnTerms(ns, es, n)} :
           n \in UNION {Neighbours(es, b) : b \in BestConcepts(ns, es, cs)}}

\* Extended mode: the caller of lookup_symptom expands its best match.
ExpandConditions(r) ==
  /\ req[r].pc = "returned"
  /\ req[r].candidates # <<>>
  /\ req' = [req EXCEPT ![r] =
               [@ EXCEPT !.pc = "expanded",
                         !.conditions = PotentialConditions(nodes, edges, req[r].candidates)]]
  /\ UNCHANGED <<config, ingestVars, storeVars>>

\* The response is sent (or the caller has its list): the next request.
Finish(r) ==
  /\ req[r].pc \in {"replied", "returned", "expanded"}
  /\ req' = [req EXCEPT ![r] = Idle]
  /\ UNCHANGED <<config, ingestVars, storeVars>>

\* The store that a run of ingest_snomed on the bulk extracts leaves.
BulkLoaded ==
  LET one == OneBatchRun(BulkConcepts, BulkDescs, BulkRels)
  IN [nodes |-> one.nodes, edges |-> one.edges, vindex |-> CreateVectorIndex(one.nodes)]

Init ==
  /\ setup \in Setups
  /\ BATCH_SIZE \in (CASE setup = "fake" -> {1}
                        [] setup = "concurrent" -> {MaxBatch}
                        [] OTHER -> 1..MaxBatch)
  /\ files \in (CASE setup = "arbitrary" -> SUBSET FileNames
                   [] setup \in {"fake", "rerun", "concurrent"} -> {FileNames}
                   [] OTHER -> {{}, FileNames})
  /\ indexLive \in (IF setup = "fake" THEN BOOLEAN ELSE {TRUE})
  /\ q = 0
  /\ found = <<>>
  /\ embedded = 0
  /\ pc = IF setup = "fake" THEN "fake_clear" ELSE "start"
  /\ conceptRows = <<>>
  /\ descRows = <<>>
  /\ relRows = <<>>
  /\ loaded_ids = {}
  /\ batch = <<>>
  /\ batch_isa = <<>>
  /\ batch_assoc = <<>>
  /\ \E s \in (CASE setup = "rerun" -> {BulkLoaded}
                   [] setup = "concurrent" -> {EmptyStore}
                   [] OTHER -> PriorStores) :
       /\ nodes = s.nodes
       /\ edges = s.edges
       /\ vindex = s.vindex
  /\ req = [r \in Slots |-> Idle]

Next ==
  \/ check_files
  \/ nuke_database
  \/ ConceptRow
  \/ ConceptsDone
  \/ DescRow
  \/ DescsDone
  \/ RelRow
  \/ RelsDone
  \/ BuildIndex
  \/ FakeClear
  \/ FakeDropIndex
  \/ FakeCreateIndex
  \/ FakeQuery
  \/ FakeCollect
  \/ FakeEmbed
  \/ FakeDone
  \/ \E r \in Requests : triage_webhook(r)
  \/ \E r \in Requests : lookup_symptom(r)
  \/ \E r \in Requests : Encode(r)
  \/ \E r \in Requests : OpenSession(r)
  \/ \E r \in Requests : Query(r)
  \/ \E r \in Requests : Return(r)
  \/ \E r \in Requests : ExpandConditions(r)
  \/ \E r \in Requests : Finish(r)

Spec == Init /\ [][Next]_vars

\* ------------------------------------------------------------------ claims
\* The Description nodes of the store, and the sctid of a node's owners.
DescriptionIds == {i \in 1..Len(nodes) : nodes[i].label = "Description"}

OwnerEdges(d) ==
  {j \in 1..Len(edges) : edges[j].label = "HAS_DESCRIPTION" /\ edges[j].dst = d}

SnomedLoading ==
  setup # "fake" /\ pc \in {"concepts", "descriptions", "relationships", "index", "done", "failed"}

\* The Description rows read so far that are active, have the id d and name
\* the concept c, when c is accepted.
AcceptedRowsFor(d, c) ==
  {i \in 1..Len(descRows) :
     /\ descRows[i].active = "1"
     /\ descRows[i].id = d
     /\ descRows[i].conceptId = c
     /\ c \in loaded_ids}

\* Every Description node hangs by exactly one HAS_DESCRIPTION edge from a
\* Concept node, and there are no more nodes with a given id under a given
\* concept than accepted rows with that id and concept: none for a concept
\* that is not accepted.
NoOrphanDescription ==
  SnomedLoading =>
    \A d \in DescriptionIds :
      /\ Cardinality(OwnerEdges(d)) = 1
      /\ \A j \in OwnerEdges(d) :
           LET owner == nodes[edges[j].src]
           IN /\ owner.label = "Concept"
              /\ owner.sctid \in loaded_ids
              /\ Cardinality({e \in DescriptionIds :
                                /\ nodes[e].sctid = nodes[d].sctid
                                /\ \E h \in OwnerEdges(e) : nodes[edges[h].src].sctid = owner.sctid})
                   <= Cardinality(AcceptedRowsFor(nodes[d].sctid, owner.sctid))

\* The step that reads a Description row of a concept that is not accepted
\* leaves the store and the write buffer as they were and does not fail.
OrphanRowDropped ==
  (/\ setup # "fake"
   /\ Len(descRows') = Len(descRows) + 1
   /\ descRows'[Len(descRows')].conceptId \notin loaded_ids)
  => /\ nodes' = nodes
     /\ edges' = edges
     /\ batch' = batch
     /\ pc' = pc

\* C1: a Description row whose conceptId is not in the accepted-id set never
\* gives a Description node or a HAS_DESCRIPTION edge, at any point of the run
\* and for every batch size, and reading it raises no error.
C1_OrphanDescriptionsDropped == [](NoOrphanDescription) /\ [][OrphanRowDropped]_vars

\* C1's case: a finished run that read a Description row of a concept that
\* is not accepted, next to a row it stored.
C1_Witness ==
  /\ setup = "arbitrary"
  /\ pc = "done"
  /\ DescriptionIds # {}
  /\ \E i \in 1..Len(descRows) :
       descRows[i].active = "1" /\ descRows[i].conceptId \notin loaded_ids

\* The edges with a label from a Concept with sctid a to a Concept with sctid b.
ConceptEdges(label, a, b) ==
  {j \in 1..Len(edges) :
     /\ edges[j].label = label
     /\ nodes[edges[j].src].label = "Concept"
     /\ nodes[edges[j].src].sctid = a
     /\ nodes[edges[j].dst].label = "Concept"
     /\ nodes[edges[j].dst].sctid = b}

KnownTypes == {"116680003", "47429007", "42752001", "246090004"}

\* Some active Relationship row links a to b, both accepted, with a known
\* type that is hierarchical (isa) or not.
SomeRelRow(a, b, isa) ==
  \E i \in 1..Len(relRows) :
    /\ relRows[i].active = "1"
    /\ relRows[i].sourceId = a
    /\ relRows[i].destinationId = b
    /\ a \in loaded_ids
    /\ b \in loaded_ids
    /\ relRows[i].typeId \in KnownTypes
    /\ (relRows[i].typeId = "116680003") = isa

\* C2: once the Relationship pass is through, a -IS_A-> b exists, once, iff
\* an active row of the hierarchical type links two accepted concepts a and b,
\* a -ASSOCIATED_WITH-> b exists, once, iff such a row of another known type
\* does, and there is no other edge between concepts.
C2_RelationshipEdges ==
  (setup # "fake" /\ pc \in {"index", "done"}) =>
    /\ \A a \in Codes, b \in Codes :
         /\ Cardinality(ConceptEdges("IS_A", a, b)) = IF SomeRelRow(a, b, TRUE) THEN 1 ELSE 0
         /\ Cardinality(ConceptEdges("ASSOCIATED_WITH", a, b))
              = IF SomeRelRow(a, b, FALSE) THEN 1 ELSE 0
    /\ \A j \in 1..Len(edges) :
         nodes[edges[j].src].label = "Concept" =>
           \/ edges[j].label = "HAS_DESCRIPTION"
           \/ /\ edges[j].label \in {"IS_A", "ASSOCIATED_WITH"}
              /\ nodes[edges[j].dst].label = "Concept"
              /\ nodes[edges[j].src].sctid \in Codes
              /\ nodes[edges[j].dst].sctid \in Codes

\* C2's case: a finished run whose extract names one pair in two rows of
\* known, non-hierarchical types, and one row of an unknown type.
C2_Witness ==
  /\ setup = "arbitrary"
  /\ pc = "done"
  /\ \E i \in 1..Len(relRows), j \in 1..Len(relRows), a \in loaded_ids, b \in loaded_ids :
       /\ i < j
       /\ relRows[i].sourceId = a /\ relRows[j].sourceId = a
       /\ relRows[i].destinationId = b /\ relRows[j].destinationId = b
       /\ relRows[i].active = "1" /\ relRows[j].active = "1"
       /\ relRows[i].typeId = "47429007"
       /\ relRows[j].typeId = "42752001"
       /\ Cardinality(ConceptEdges("ASSOCIATED_WITH", a, b)) = 1

\* C3: after the Concept pass every code with an active Concept row has
\* exactly one Concept node, however often and in whichever batches the code
\* occurs, and whether or not an earlier load left the code in the store.
C3_OneConceptPerCode ==
  (setup # "fake" /\ pc \in {"descriptions", "relationships", "index", "done"}) =>
    \A i \in 1..Len(conceptRows) :
      conceptRows[i].active = "1" =>
        Cardinality({n \in 1..Len(nodes) :
                       nodes[n].label = "Concept" /\ nodes[n].sctid = conceptRows[i].id}) = 1

\* C3's case: a code that occurs twice, in two batches, has its node after
\* the Concept pass.
C3_Witness ==
  /\ setup = "arbitrary"
  /\ pc = "descriptions"
  /\ BATCH_SIZE = 1
  /\ \E i \in 1..Len(conceptRows), j \in 1..Len(conceptRows) :
       /\ i < j
       /\ conceptRows[i] = conceptRows[j]
       /\ conceptRows[i].active = "1"
       /\ \E n \in 1..Len(nodes) : nodes[n].sctid = conceptRows[i].id

\* C4: while the vector index exists, no Description node is created or
\* changed: the index is created after the last Description write.
C4_IndexAfterDescriptions ==
  [][vindex.exists =>
       \A i \in 1..Len(nodes') :
         nodes'[i].label = "Description" => (i <= Len(nodes) /\ nodes[i] = nodes'[i])]_vars

\* The request slots that hold a request, and the first tool call of one.
Active == {r \in Requests : req[r].pc # "idle" /\ req[r].via = "webhook"}

Answered == {r \in Active : req[r].pc = "replied"}

\* The slots where lookup_symptom has returned.
Looked == {r \in Requests : req[r].pc \in {"return", "returned"}
                            \/ (req[r].pc = "replied" /\ req[r].mode \in {"tool", "manual"})}

ToolCallsOf(env) ==
  IF env.json /\ "message" \in DOMAIN env.data /\ "toolCalls" \in DOMAIN env.data.message
  THEN env.data.message.toolCalls
  ELSE <<>>

\* The external code of a Concept node: sctid, or id for the nodes that
\* carry their code under that name.
ConceptCode(n) == IF n.sctid # NULL THEN n.sctid ELSE n.id

\* C5: lookup_symptom returns at most 10 entries, in order of non-increasing
\* score, each with the code of the concept that owns a description, that
\* description's term and its similarity to the text.
C5_TopKOrdered ==
  \A r \in Looked :
    LET cs == req[r].candidates
    IN /\ Len(cs) <= 10
       /\ \A i \in 1..Len(cs), j \in 1..Len(cs) : i < j => cs[i].score >= cs[j].score
       /\ \A i \in 1..Len(cs) :
            \E e \in 1..Len(edges) :
              /\ edges[e].label = "HAS_DESCRIPTION"
              /\ nodes[edges[e].dst].term = cs[i].term
              /\ cs[i].score = CosSim(Embed(req[r].symptom_text), nodes[edges[e].dst].embedding)
              /\ cs[i].id = ConceptCode(nodes[edges[e].src])

\* C6: lookup_symptom on the empty string, or against an index without
\* entries, returns the empty list.
C6_EmptyInputEmptyList ==
  \A r \in Looked :
    (req[r].symptom_text = "" \/ (vindex.exists /\ vindex.entries = {}))
      => req[r].candidates = <<>>

\* The texts t for which the first tool call of env is a lookup_symptom call
\* with an id and the symptom t, as an object or as its serialization.
LookupCallTexts(env) ==
  {t \in Texts \ {""} :
     /\ ToolCallsOf(env) # <<>>
     /\ LET call == ToolCallsOf(env)[1]
        IN /\ "id" \in DOMAIN call
           /\ "function" \in DOMAIN call
           /\ "name" \in DOMAIN call.function
           /\ call.function.name = "lookup_symptom"
           /\ "arguments" \in DOMAIN call.function
           /\ \/ call.function.arguments = JDict([symptom |-> t])
              \/ call.function.arguments = JStr(SerializeArgs([symptom |-> t]))}

\* C7: a lookup_symptom tool call with the id X and a non-empty symptom, its
\* arguments an object or a serialized string, has lookup_symptom called with
\* that symptom and is answered, with success, by exactly one result record
\* that carries X and the serialization of the list lookup_symptom returned.
C7_ToolCallAnswered ==
  \A r \in Active :
    \A t \in LookupCallTexts(req[r].env) :
      /\ req[r].symptom_text = t
      /\ req[r].pc = "replied" =>
           /\ req[r].reply.status_code = 200
           /\ req[r].reply.content =
                [results |-> <<[toolCallId |-> ToolCallsOf(req[r].env)[1].id,
                                result |-> dumps(req[r].candidates)]>>]

\* C7's case: the answer to a call whose arguments came as a string, with
\* the matches of its symptom.
C7_Witness ==
  \E r \in Answered :
    /\ LookupCallTexts(req[r].env) = {"chest pain"}
    /\ ToolCallsOf(req[r].env)[1].function.arguments.type = "str"
    /\ ToolCallsOf(req[r].env)[1].id = "x1"
    /\ req[r].candidates # <<>>
    /\ req[r].reply.content.results[1].toolCallId = "x1"

\* An envelope without tool calls and without any other call: no toolCalls
\* or an empty list, no functionCall, no symptom of its own.
IsHeartbeat(env) ==
  /\ env.json
  /\ ToolCallsOf(env) = <<>>
  /\ ~("message" \in DOMAIN env.data /\ "functionCall" \in DOMAIN env.data.message)
  /\ ("symptom" \in DOMAIN env.data => env.data.symptom = "")

\* C8: an envelope without tool calls and without any other call is answered
\* {"status": "ok"} with success, and no lookup is made for it.
C8_HeartbeatOk ==
  \A r \in Active :
    IsHeartbeat(req[r].env) =>
      /\ req[r].pc = "replied"
      /\ req[r].reply = [status_code |-> 200, content |-> [status |-> "ok"]]
      /\ req[r].symptom_text = NULL
      /\ req[r].session = "none"

\* C8's case: the answer to an envelope whose toolCalls list is empty.
C8_Witness ==
  \E r \in Answered :
    /\ req[r].env = [json |-> TRUE, data |-> [message |-> [toolCalls |-> <<>>]]]
    /\ req[r].reply.content = [status |-> "ok"]

\* The first tool call of env is a lookup_symptom call without a symptom:
\* no arguments, empty arguments (as an object or as a string), or
\* arguments without that key.
MissingSymptom(env) ==
  /\ ToolCallsOf(env) # <<>>
  /\ LET call == ToolCallsOf(env)[1]
     IN /\ "function" \in DOMAIN call
        /\ "name" \in DOMAIN call.function
        /\ call.function.name = "lookup_symptom"
        /\ \/ "arguments" \notin DOMAIN call.function
           \/ call.function.arguments = JDict(<<>>)
           \/ call.function.arguments = JStr(<<Punct("{"), Punct("}")>>)

\* C9: a lookup_symptom tool call without a symptom is answered with an
\* empty or ok envelope and success, the rejection is logged, and no lookup
\* is made.
C9_MissingSymptomNeutral ==
  \A r \in Active :
    MissingSymptom(req[r].env) =>
      /\ req[r].pc = "replied"
      /\ req[r].reply.status_code = 200
      /\ req[r].reply.content \in {<<>>, [status |-> "ok"]}
      /\ \E i \in 1..Len(req[r].logs) : req[r].logs[i] = "Tool call missing 'symptom' argument."
      /\ req[r].symptom_text = NULL
      /\ req[r].session = "none"

\* C9's case: the answer to a lookup_symptom call that has no arguments.
C9_Witness ==
  \E r \in Answered :
    /\ MissingSymptom(req[r].env)
    /\ "arguments" \notin DOMAIN ToolCallsOf(req[r].env)[1].function
    /\ req[r].reply.content = <<>>

\* The lookup of a slot has failed: lookup_symptom logged it.
LookupHasFailed(r) ==
  \E i \in 1..Len(req[r].logs) : req[r].logs[i] = "DB Query Failed"

\* C10: when the embedding or the query of a lookup made for a tool call
\* fails, lookup_symptom returns the empty list and the call is answered,
\* with success, by one result record with its id and the serialized empty list.
C10_LookupFailureContained ==
  \A r \in Active :
    (ToolCallsOf(req[r].env) # <<>>
       /\ req[r].pc \in {"session", "query", "return", "replied"}
       /\ (LookupHasFailed(r) \/ req[r].reply.status_code = 500)
       /\ req[r].symptom_text # NULL)
    => /\ req[r].candidates = <<>>
       /\ req[r].pc \in {"return", "replied"}
       /\ req[r].pc = "replied" =>
            req[r].reply =
              [status_code |-> 200,
               content |-> [results |-> <<[toolCallId |-> Get(ToolCallsOf(req[r].env)[1],
                                                              "id", NULL),
                                           result |-> <<Punct("["), Punct("]")>>]>>]]

\* C10's case: the answer to a tool call whose query failed after its
\* embedding was made.
C10_Witness ==
  \E r \in Answered :
    /\ req[r].mode = "tool"
    /\ LookupHasFailed(r)
    /\ req[r].embedding # NoEmbedding
    /\ req[r].session = "closed"
    /\ req[r].reply.status_code = 200

\* A serialized value: a list of tokens.
IsText(v) == \A i \in 1..Len(v) : DOMAIN v[i] = {"t", "v"}

\* The three reply shapes: one result record with a call id and a string,
\* the ok status, and an error string.
IsResultsShape(content) ==
  /\ DOMAIN content = {"results"}
  /\ Len(content.results) = 1
  /\ DOMAIN content.results[1] = {"toolCallId", "result"}
  /\ IsText(content.results[1].result)

IsOkShape(content) == content = [status |-> "ok"]

IsErrorShape(content) == DOMAIN content = {"error"}

\* An exception reached triage_webhook's handler.
HandlerRaised(r) ==
  \E i \in 1..Len(req[r].logs) : req[r].logs[i] = "Webhook Error"

\* C11: every reply of triage_webhook is {results: [{toolCallId, result}]}
\* with a string result, {status: "ok"}, or {error} with status 500, and
\* the error shape is the reply only when the handler caught an exception.
C11_ThreeReplyShapes ==
  \A r \in Answered :
    LET content == req[r].reply.content
    IN /\ \/ IsResultsShape(content)
          \/ IsOkShape(content)
          \/ IsErrorShape(content) /\ req[r].reply.status_code = 500
       /\ IsErrorShape(content) => HandlerRaised(r)

\* The functionCall of an envelope of the older shape that names the lookup
\* action with a non-empty symptom; {} when there is none.
LookupFunctionCalls(env) ==
  IF env.json /\ "message" \in DOMAIN env.data /\ "functionCall" \in DOMAIN env.data.message
  THEN {fc \in {env.data.message.functionCall} :
          fc.name = "lookup_symptom" /\ Truthy(Get(fc.parameters, "symptom", NULL))}
  ELSE {}

\* C12: an envelope {message: {type, functionCall: {name, parameters,
\* toolCallId}}} that names the lookup action with a non-empty symptom
\* triggers a lookup of that symptom and is answered with one result record
\* carrying its toolCallId, not as a heartbeat.
C12_FunctionCallAccepted ==
  \A r \in Active :
    \A fc \in LookupFunctionCalls(req[r].env) :
      /\ req[r].symptom_text = fc.parameters.symptom
      /\ req[r].pc = "replied" =>
           /\ ~IsOkShape(req[r].reply.content)
           /\ req[r].reply.content =
                [results |-> <<[toolCallId |-> fc.toolCallId,
                                result |-> dumps(req[r].candidates)]>>]

\* C13: when one of the three extracts is absent, ingest_snomed ends at
\* check_files: the run never gets past it, and no step changes the nodes,
\* the edges or the vector index.
C13_MissingExtractFailsFast ==
  /\ [](files # FileNames => pc \in {"start", "aborted"})
  /\ [][files # FileNames => UNCHANGED storeVars]_vars

\* C13's case: a run that ended at check_files, over a store loaded earlier.
C13_Witness ==
  /\ files # FileNames
  /\ pc = "aborted"
  /\ nodes # <<>>
  /\ vindex.exists

\* A step of the Description pass in which a batch was due, at the batch
\* size or at the end of the file, and the store did not get its nodes.
DescWriteFailed ==
  /\ setup # "fake"
  /\ pc = "descriptions"
  /\ nodes' = nodes
  /\ \/ /\ Len(descRows') = Len(descRows) + 1
        /\ Len(DescBatchAfter(batch, descRows'[Len(descRows')], loaded_ids)) >= BATCH_SIZE
     \/ /\ descRows' = descRows
        /\ pc' # pc
        /\ batch # <<>>

\* No pass of ingest_snomed goes on with a write buffer at the batch size,
\* and no pass starts while a write of an earlier pass is missing.
NoPassBeyondMissingWrite ==
  (setup # "fake") =>
    /\ pc \in {"concepts", "descriptions"} => Len(batch) < BATCH_SIZE
    /\ pc = "relationships" => Len(batch_isa) < BATCH_SIZE /\ Len(batch_assoc) < BATCH_SIZE
    /\ pc \in {"descriptions", "relationships", "index", "done"} =>
         \A c \in loaded_ids : MatchConcept(nodes, c) # {}
    /\ pc \in {"relationships", "index", "done"} =>
         \A i \in 1..Len(descRows) :
           DescAccepted(descRows[i], loaded_ids) =>
             \E d \in DescriptionIds : nodes[d].sctid = descRows[i].id
    /\ pc \in {"index", "done"} =>
         \A i \in 1..Len(relRows) :
           RelAccepted(relRows[i], loaded_ids) =>
             ConceptEdges(IF IsHierarchical(relRows[i]) THEN "IS_A" ELSE "ASSOCIATED_WITH",
                          relRows[i].sourceId, relRows[i].destinationId) # {}
    /\ pc = "done" => vindex.exists

\* C14: a failed embedding or write of a batch ends the run: the step of the
\* Description pass whose batch did not reach the store fails the run, no
\* pass goes on or starts with a write missing, and a failed run reads no
\* row, writes nothing, creates no index and stays failed.
C14_BatchFailureAborts ==
  /\ [][DescWriteFailed => pc' = "failed"]_vars
  /\ [](NoPassBeyondMissingWrite)
  /\ [][pc = "failed" => UNCHANGED <<ingestVars, storeVars>>]_vars

\* C14's case: a run that failed in the Description pass after it wrote a
\* batch, with the batch that failed still in its buffer and no index.
C14_Witness ==
  /\ setup = "arbitrary"
  /\ pc = "failed"
  /\ DescriptionIds # {}
  /\ batch # <<>>
  /\ relRows = <<>>
  /\ ~vindex.exists

\* A graph without its internal ids and the order of its writes: how many
\* Concept nodes each code has, how many Description nodes there are of each
\* content under each set of owners, and how many edges of each label link
\* each pair of codes.
GraphOf(ns, es) ==
  LET descs == {i \in 1..Len(ns) : ns[i].label = "Description"}
      owners(d) == {ns[es[j].src].sctid :
                      j \in {k \in 1..Len(es) : es[k].label = "HAS_DESCRIPTION" /\ es[k].dst = d}}
      ownerEdges(d) == Cardinality({k \in 1..Len(es) :
                                      es[k].label = "HAS_DESCRIPTION" /\ es[k].dst = d})
      between(label) ==
        {<<ns[es[j].src].sctid, ns[es[j].dst].sctid,
           Cardinality({k \in 1..Len(es) :
                          /\ es[k].label = label
                          /\ ns[es[k].src].sctid = ns[es[j].src].sctid
                          /\ ns[es[k].dst].sctid = ns[es[j].dst].sctid})>> :
           j \in {k \in 1..Len(es) : es[k].label = label}}
  IN [concepts |-> {<<ns[i].sctid, Cardinality(MatchConcept(ns, ns[i].sctid))>> :
                      i \in {k \in 1..Len(ns) : ns[k].label = "Concept"}},
      descriptions |-> {<<ns[d], owners(d), ownerEdges(d),
                          Cardinality({e \in descs : ns[e] = ns[d] /\ owners(e) = owners(d)})>> :
                          d \in descs},
      isa |-> between("IS_A"),
      assoc |-> between("ASSOCIATED_WITH"),
      edges |-> Len(es)]

\* C15: the graph a failure-free run of ingest_snomed leaves is, for every
\* batch size, the graph of the run that writes each pass in one batch:
\* the same for every batch size.
C15_BatchSizeIrrelevant ==
  (setup # "fake" /\ pc \in {"index", "done"}) =>
    GraphOf(nodes, edges)
      = LET one == OneBatchRun(conceptRows, descRows, relRows)
        IN GraphOf(one.nodes, one.edges)

\* C15's case: a finished run with batch size 1 that wrote two Concept
\* batches and a Description batch.
C15_Witness ==
  /\ setup = "arbitrary"
  /\ pc = "done"
  /\ BATCH_SIZE = 1
  /\ Cardinality(loaded_ids) = 2
  /\ Cardinality(DescriptionIds) >= 1
  /\ Len(edges) >= 1

\* The Concept pass is through: the accepted-id set holds the code of every
\* active Concept row, and every one of them has its node.
ConceptPassFinished ==
  /\ loaded_ids = AllLoadedIds(conceptRows, {})
  /\ \A c \in loaded_ids : MatchConcept(nodes, c) # {}

\* A step that adds a Description node or an edge to the store.
DescOrRelWrite ==
  \/ Len(edges') > Len(edges)
  \/ /\ Len(nodes') > Len(nodes)
     /\ \E i \in (Len(nodes) + 1)..Len(nodes') : nodes'[i].label = "Description"

\* C16: ingest_snomed writes no Description and no edge before the Concept
\* pass is through, with every accepted code written and the accepted-id
\* set complete, and the accepted-id set stays as it is in the Description
\* and the Relationship pass.
C16_ConceptsBeforeTheRest ==
  /\ [][(setup # "fake" /\ DescOrRelWrite) =>
          /\ pc \in {"descriptions", "relationships"}
          /\ ConceptPassFinished
          /\ Len(conceptRows') = Len(conceptRows)]_vars
  /\ []((setup # "fake" /\ pc = "concepts") => (edges = <<>> /\ DescriptionIds = {}))
  /\ []((setup # "fake" /\ pc \in {"descriptions", "relationships", "index", "done"})
          => ConceptPassFinished)
  /\ [][(setup # "fake" /\ pc \in {"descriptions", "relationships"})
          => loaded_ids' = loaded_ids]_vars

\* C16's case: the Description pass has written a Description of a concept
\* that the final, partial batch of the Concept pass wrote.
C16_Witness ==
  /\ setup = "arbitrary"
  /\ BATCH_SIZE = 2
  /\ pc = "descriptions"
  /\ Cardinality(loaded_ids) = 1
  /\ DescriptionIds # {}

\* A step that creates a node, an edge or the vector index.
Creates ==
  \/ Len(nodes') > Len(nodes)
  \/ Len(edges') > Len(edges)
  \/ vindex'.exists /\ ~vindex.exists

\* The store holds nothing.
StoreEmpty == nodes = <<>> /\ edges = <<>> /\ ~vindex.exists

\* The store of a finished run of ingest_snomed holds one Concept node for
\* each accepted code and one Description node for each accepted row, and
\* nothing else: nothing of what the store held before.
OnlyFromExtracts ==
  /\ Len(nodes) = Cardinality(loaded_ids)
                    + Cardinality({i \in 1..Len(descRows) : DescAccepted(descRows[i], loaded_ids)})
  /\ \A i \in 1..Len(nodes) :
       nodes[i].label = "Concept" => nodes[i].sctid \in AllLoadedIds(conceptRows, {})
  /\ \A d \in DescriptionIds :
       \E i \in 1..Len(descRows) :
         DescAccepted(descRows[i], loaded_ids) /\ nodes[d].sctid = descRows[i].id
  /\ vindex = CreateVectorIndex(nodes)

\* C17: each ingestion run empties the store and drops the vector index
\* before it creates anything, so that a finished run of ingest_snomed
\* leaves only what its extracts give, and a run over the store that a run
\* on the same extracts has left leaves that same graph again.
C17_NukeAndReload ==
  /\ [][pc = "cleanup" => StoreEmpty']_vars
  /\ [][(pc = "fake_clear" /\ pc' # "failed") => (nodes' = <<>> /\ edges' = <<>>)]_vars
  /\ [][pc = "fake_drop" => StoreEmpty']_vars
  /\ [][Creates => pc \notin {"start", "cleanup", "fake_clear", "fake_drop"}]_vars
  /\ []((pc = "fake_index" \/ (pc = "concepts" /\ conceptRows = <<>>)) => StoreEmpty)
  /\ []((setup # "fake" /\ pc = "done") => OnlyFromExtracts)
  /\ []((setup = "rerun" /\ pc = "done") =>
          /\ GraphOf(nodes, edges) = GraphOf(BulkLoaded.nodes, BulkLoaded.edges)
          /\ Len(nodes) = Len(BulkLoaded.nodes)
          /\ Len(edges) = Len(BulkLoaded.edges)
          /\ vindex = BulkLoaded.vindex)

\* C17's case: a second run on the bulk extracts, over the store the first
\* left, has finished.
C17_Witness ==
  /\ setup = "rerun"
  /\ pc = "done"
  /\ BATCH_SIZE = 2
  /\ Len(nodes) = Len(BulkLoaded.nodes)
  /\ Cardinality(DescriptionIds) = BulkSize

\* The Concept nodes with a code, and whether an ASSOCIATED_WITH edge links
\* two nodes directly.
ConceptsCoded(code) == {i \in 1..Len(nodes) : nodes[i].label = "Concept" /\ ConceptCode(nodes[i]) = code}

DirectlyLinked(a, b) ==
  \E j \in 1..Len(edges) :
    /\ edges[j].label = "ASSOCIATED_WITH"
    /\ (edges[j].src = a /\ edges[j].dst = b) \/ (edges[j].src = b /\ edges[j].dst = a)

\* The slots whose lookup has been expanded, and the concepts it gave.
Expanded == {r \in Requests : req[r].pc = "expanded"}

ConditionConcepts(r) == {c.concept : c \in req[r].conditions}

SymptomAsked(env) ==
  IF ToolCallsOf(env) # <<>>
  THEN LET a == ToolCallsOf(env)[1].function.arguments
       IN IF a.type = "dict" THEN a.val.symptom
          ELSE CHOOSE t \in Texts : a.val = SerializeArgs([symptom |-> t])
  ELSE env.data.symptom

\* The reply a webhook request gets when it is the only one served: from
\* its own envelope, the store, and whether its own lookup failed.
ReplyAlone(r) ==
  LET env == req[r].env
      list == IF LookupHasFailed(r) THEN <<>>
              ELSE RunSearch(vindex, nodes, edges, Embed(SymptomAsked(env)))
  IN CASE req[r].mode = "tool" ->
            [status_code |-> 200,
             content |-> [results |-> <<[toolCallId |-> Get(ToolCallsOf(env)[1], "id", NULL),
                                         result |-> dumps(list)]>>]]
       [] req[r].mode = "manual" ->
            [status_code |-> 200, content |-> [results |-> list]]
       [] OTHER -> req[r].reply

\* Where a slot stands in lookup_symptom, and the state of its session there.
SessionScoped(r) ==
  /\ req[r].pc \in {"idle", "encode", "session"} => req[r].session = "none"
  /\ req[r].pc = "query" => req[r].session = "open"
  /\ req[r].pc \in {"return", "returned", "expanded", "replied"} => req[r].session # "open"
  /\ (req[r].pc \in {"return", "returned", "expanded"} /\ req[r].embedding # NoEmbedding
        /\ req[r].candidates # <<>>) => req[r].session = "closed"

\* C19: however the steps of the requests being served interleave, a lookup
\* runs its query in a session of its own that is released before the lookup
\* returns, whether or not it failed; no step of a request changes a node, an
\* edge or the index, or another request; and each reply is the one the
\* request gets when served alone.
C19_ConcurrentLookupsIsolated ==
  /\ [](\A r \in Requests : SessionScoped(r))
  /\ [][req' # req => UNCHANGED storeVars]_vars
  /\ [][\A r1 \in Requests, r2 \in Requests :
          (r1 # r2 /\ req'[r1] # req[r1]) => req'[r2] = req[r2]]_vars
  /\ [](\A r \in Answered : req[r].mode \in {"tool", "manual"} => req[r].reply = ReplyAlone(r))

\* C19's case: two requests served at a time, one answered with the matches
\* of its symptom while the query of the other runs in its open session.
C19_Witness ==
  /\ setup = "concurrent"
  /\ req["r1"].pc = "replied"
  /\ req["r1"].mode = "tool"
  /\ req["r1"].candidates # <<>>
  /\ req["r1"].session = "closed"
  /\ req["r2"].pc = "query"
  /\ req["r2"].session = "open"
  /\ req["r2"].symptom_text # req["r1"].symptom_text

\* The Description nodes with the id d that hang from a Concept node with
\* the code c.
DescriptionsOf(d, c) ==
  {n \in DescriptionIds :
     /\ nodes[n].sctid = d
     /\ \E j \in OwnerEdges(n) : nodes[edges[j].src].label = "Concept"
                                 /\ nodes[edges[j].src].sctid = c}

\* C20: when a failure-free run of ingest_snomed ends, what is left in the
\* write buffers is in the store, the Concept nodes are those of the
\* accepted-id set, one each, and each active Description row of an accepted
\* concept has a Description node of its own, with one HAS_DESCRIPTION edge,
\* from the concept its conceptId names.
C20_NoRowLostAtBoundary ==
  (setup # "fake" /\ pc = "done") =>
    /\ \A i \in 1..Len(batch) : DescriptionsOf(batch[i].id, batch[i].conceptId) # {}
    /\ \A i \in 1..Len(batch_isa) :
         ConceptEdges("IS_A", batch_isa[i].source, batch_isa[i].dest) # {}
    /\ \A i \in 1..Len(batch_assoc) :
         ConceptEdges("ASSOCIATED_WITH", batch_assoc[i].source, batch_assoc[i].dest) # {}
    /\ {nodes[i].sctid : i \in {k \in 1..Len(nodes) : nodes[k].label = "Concept"}} = loaded_ids
    /\ \A c \in loaded_ids : Cardinality(MatchConcept(nodes, c)) = 1
    /\ \A n \in DescriptionIds : Cardinality(OwnerEdges(n)) = 1
    /\ \A i \in 1..Len(descRows) :
         DescAccepted(descRows[i], loaded_ids) =>
           Cardinality(DescriptionsOf(descRows[i].id, descRows[i].conceptId))
             = Cardinality(AcceptedRowsFor(descRows[i].id, descRows[i].conceptId))
    /\ Cardinality(DescriptionIds)
         = Cardinality({i \in 1..Len(descRows) : DescAccepted(descRows[i], loaded_ids)})

\* C20's case: a finished run with batch size 2 whose only accepted
\* Description row was written by the final flush.
C20_Witness ==
  /\ setup = "arbitrary"
  /\ pc = "done"
  /\ BATCH_SIZE = 2
  /\ Cardinality(DescriptionIds) = 1
  /\ Len(batch) = 1
  /\ Cardinality({i \in 1..Len(descRows) : DescAccepted(descRows[i], loaded_ids)}) = 1

\* The envelope that holds the first tool call of env alone.
FirstCallAlone(env) ==
  [json |-> TRUE, data |-> [message |-> [toolCalls |-> <<ToolCallsOf(env)[1]>>]]]

\* The reply to the envelope that holds one tool call, given the list its
\* lookup returned, if it made one.
ReplyToOneCall(env, list) ==
  LET call == ToolCallsOf(env)[1]
      function == Get(call, "function", <<>>)
      arguments == Get(function, "arguments", JDict(<<>>))
      isLookup == Get(function, "name", NULL) = "lookup_symptom"
      asked == IF arguments.type = "dict" THEN {t \in Texts \ {""} : arguments.val = [symptom |-> t]}
               ELSE {t \in Texts \ {""} : arguments.val = SerializeArgs([symptom |-> t])}
  IN IF arguments.type = "str" /\ arguments.val = Truncated
     THEN [status_code |-> 500, content |-> [error |-> "exception"]]
     ELSE IF isLookup /\ asked # {}
     THEN [status_code |-> 200,
           content |-> [results |-> <<[toolCallId |-> Get(call, "id", NULL),
                                       result |-> dumps(list)]>>]]
     ELSE [status_code |-> 200, content |-> <<>>]

\* The symptom the one call of an envelope has looked up; NULL when none.
LookupOfOneCall(env) ==
  LET call == ToolCallsOf(env)[1]
      function == Get(call, "function", <<>>)
      arguments == Get(function, "arguments", JDict(<<>>))
  IN IF Get(function, "name", NULL) = "lookup_symptom" /\ arguments.type = "dict"
          /\ Truthy(Get(arguments.val, "symptom", NULL))
     THEN arguments.val.symptom
     ELSE IF Get(function, "name", NULL) = "lookup_symptom" /\ arguments.type = "str"
             /\ \E t \in Texts \ {""} : arguments.val = SerializeArgs([symptom |-> t])
     THEN CHOOSE t \in Texts \ {""} : arguments.val = SerializeArgs([symptom |-> t])
     ELSE NULL

\* The ids of the tool calls of an envelope after the first.
LaterIds(env) ==
  {ToolCallsOf(env)[i].id : i \in {k \in 2..Len(ToolCallsOf(env)) : "id" \in DOMAIN ToolCallsOf(env)[k]}}

\* C21: of an envelope with two or more tool calls, triage_webhook handles
\* the first alone: the only lookup is the one the first call asks for, the
\* reply is the reply to the envelope that holds the first call alone, and
\* no id of a later call is in it.
C21_OnlyFirstCall ==
  \A r \in Active :
    Len(ToolCallsOf(req[r].env)) >= 2 =>
      LET alone == FirstCallAlone(req[r].env)
      IN /\ req[r].symptom_text = LookupOfOneCall(alone)
         /\ req[r].pc = "replied" =>
              /\ req[r].reply = ReplyToOneCall(alone, req[r].candidates)
              /\ "results" \in DOMAIN req[r].reply.content =>
                   /\ Len(req[r].reply.content.results) = 1
                   /\ req[r].reply.content.results[1].toolCallId \notin LaterIds(req[r].env)

\* C21's case: the answer to an envelope whose first call asks for "chest
\* pain" with the id x1 and whose second asks for "knee pain" with the id x2.
C21_Witness ==
  \E r \in Answered :
    /\ Len(ToolCallsOf(req[r].env)) = 2
    /\ LookupOfOneCall(FirstCallAlone(req[r].env)) = "chest pain"
    /\ ToolCallsOf(req[r].env)[2].function.name = "lookup_symptom"
    /\ ToolCallsOf(req[r].env)[2].function.arguments = JDict([symptom |-> "knee pain"])
    /\ LaterIds(req[r].env) = {"x2"}
    /\ req[r].candidates # <<>>
    /\ req[r].reply.content.results[1].toolCallId = "x1"

====
